---- MODULE Spec2Model ----
(***************************************************************************)
(* Model of the in-memory token ledger of src/src/lib.rs (TokenState).      *)
(* The three fields of TokenState are the variables balances, allowances    *)
(* and total_supply; every public method is an operator on the struct and   *)
(* an action that applies it.  History variables record the last call and   *)
(* which addresses / pairs have been written by which operation.            *)
(***************************************************************************)
EXTENDS Integers, FiniteSets, Sequences, TLC

(* ------------------------------ bounds --------------------------------- *)

\* Balance is u64 in the source (lib.rs:20).  The model keeps the width as a
\* parameter and uses a narrower one, since TLC evaluates 32-bit integers.
BalanceBits == 16

\* number of calls made on one ledger
MaxCalls == 3

(* ------------------------------ types ---------------------------------- *)

\* Address = String: three distinct identities
Address == {"alice", "bob", "charlie"}

\* placeholder for an argument a method does not take
NoAddress == "-"

\* u64::MAX at the model's width
MaxBalance == 2^BalanceBits - 1

\* the ordered (owner, spender) pairs
Pairs == Address \X Address

\* the creators passed to new: every test and benchmark creates with "alice",
\* and the methods treat all addresses alike
Creators == {"alice"}

\* the amounts passed to transfer / approve / transfer_from
Amounts == {0, 1, 2}

\* the initial_supply values passed to new
InitialSupplies == {0, 1, 2}

\* initial_supply values at and next to the largest Balance
LargeSupplies == {MaxBalance - 1, MaxBalance}

\* values handed to mint_for_test: small ones and ones next to the maximum
MintAmounts == {0, 1, MaxBalance - 1, MaxBalance}

(* --------------------------- TokenError -------------------------------- *)

Ok == [tag |-> "Ok", required |-> 0, available |-> 0]

SelfTransfer == [tag |-> "SelfTransfer", required |-> 0, available |-> 0]

ZeroAmount == [tag |-> "ZeroAmount", required |-> 0, available |-> 0]

BalanceOverFlow == [tag |-> "BalanceOverFlow", required |-> 0, available |-> 0]

SelfApproval == [tag |-> "SelfApproval", required |-> 0, available |-> 0]

InsufficientBalance(req, avail) ==
    [tag |-> "InsufficientBalance", required |-> req, available |-> avail]

InsufficientAllowance(req, avail) ==
    [tag |-> "InsufficientAllowance", required |-> req, available |-> avail]

(* ----------------------------- HashMap --------------------------------- *)

\* HashMap::new()
EmptyMap == [k \in {} |-> 0]

\* HashMap::insert(k, v): adds the key or overwrites its value
Insert(m, k, v) == [x \in (DOMAIN m) \cup {k} |-> IF x = k THEN v ELSE m[x]]

\* an addition that wraps around at the width instead of reporting None
wrapping_add(a, b) == [some |-> TRUE, val |-> (a + b) % (MaxBalance + 1)]

\* HashMap::get(k).copied().unwrap_or(0)
Get(m, k) == IF k \in DOMAIN m THEN m[k] ELSE 0

\* u64::checked_add: None when the sum does not fit the width
checked_add(a, b) ==
    IF a + b > MaxBalance THEN [some |-> FALSE, val |-> 0]
                          ELSE [some |-> TRUE, val |-> a + b]

(* ---------------------------- TokenState ------------------------------- *)

VARIABLES
    balances,       \* HashMap<Address, Balance>
    allowances,     \* HashMap<(Address, Address), Balance>
    total_supply,   \* Balance
    last,           \* the last call: method, arguments, returned Result
    calls,          \* number of calls made so far
    creator,        \* the creator passed to new
    credited,       \* recipients of a successful transfer / transfer_from
    approved,       \* (owner, spender) pairs of a successful approve
    delegated,      \* (from, spender) pairs of a successful transfer_from
    prev,           \* the struct as it was before the last call
    init_supply,    \* the initial_supply passed to new
    granted,        \* per approved pair, the amount of the last successful
                    \* approve
    spent_since     \* per pair, the sum moved by successful transfer_from
                    \* calls since the last successful approve

vars == <<balances, allowances, total_supply, last, calls, creator, credited,
          approved, delegated, prev, init_supply, granted, spent_since>>

\* the struct as one value
Self == [balances |-> balances, allowances |-> allowances, total_supply |-> total_supply]

Call(op, spender, from, to, amount, result) ==
    [op |-> op, spender |-> spender, from |-> from, to |-> to,
     amount |-> amount, result |-> result]

\* new that forgets to seed the creator's balance
new_unfunded(c, initial_supply) ==
    [balances |-> EmptyMap,
     allowances |-> EmptyMap,
     total_supply |-> initial_supply]

\* TokenState::new
new(c, initial_supply) ==
    [balances |-> Insert(EmptyMap, c, initial_supply),
     allowances |-> EmptyMap,
     total_supply |-> initial_supply]

\* TokenState::balance_of: missing key reads as 0
balance_of(self, address) ==
    IF address \in DOMAIN self.balances THEN self.balances[address] ELSE 0

\* allowance that reads a missing key as an unlimited allowance
allowance_missing_unlimited(self, owner, spender) ==
    IF <<owner, spender>> \in DOMAIN self.allowances
    THEN self.allowances[<<owner, spender>>] ELSE MaxBalance

\* TokenState::allowance: missing key reads as 0
allowance(self, owner, spender) ==
    IF <<owner, spender>> \in DOMAIN self.allowances
    THEN self.allowances[<<owner, spender>>] ELSE 0

\* TokenState::mint_for_test (cfg(test) only)
mint_for_test(self, address, amount) ==
    [self EXCEPT !.balances = Insert(self.balances, address, amount)]

\* transfer that takes the amount out of total_supply as well
transfer_burns(self, from, to, amount) ==
    IF from = to THEN [self |-> self, result |-> SelfTransfer]
    ELSE IF amount = 0 THEN [self |-> self, result |-> ZeroAmount]
    ELSE LET from_bal == balance_of(self, from) IN
      IF from_bal < amount
      THEN [self |-> self, result |-> InsufficientBalance(amount, from_bal)]
      ELSE LET to_bal == checked_add(balance_of(self, to), amount) IN
        IF ~to_bal.some THEN [self |-> self, result |-> BalanceOverFlow]
        ELSE LET b1 == Insert(self.balances, from, from_bal - amount)
                 b2 == Insert(b1, to, to_bal.val)
             IN [self |-> [self EXCEPT !.balances = b2,
                                       !.total_supply = @ - amount],
                 result |-> Ok]

\* transfer that accepts an amount of 0
transfer_allows_zero(self, from, to, amount) ==
    IF from = to THEN [self |-> self, result |-> SelfTransfer]
    ELSE LET from_bal == balance_of(self, from) IN
      IF from_bal < amount
      THEN [self |-> self, result |-> InsufficientBalance(amount, from_bal)]
      ELSE LET to_bal == checked_add(balance_of(self, to), amount) IN
        IF ~to_bal.some THEN [self |-> self, result |-> BalanceOverFlow]
        ELSE LET b1 == Insert(self.balances, from, from_bal - amount)
                 b2 == Insert(b1, to, to_bal.val)
             IN [self |-> [self EXCEPT !.balances = b2], result |-> Ok]

\* transfer that writes from_bal back instead of from_bal - amount
transfer_no_debit(self, from, to, amount) ==
    IF from = to THEN [self |-> self, result |-> SelfTransfer]
    ELSE IF amount = 0 THEN [self |-> self, result |-> ZeroAmount]
    ELSE LET from_bal == balance_of(self, from) IN
      IF from_bal < amount
      THEN [self |-> self, result |-> InsufficientBalance(amount, from_bal)]
      ELSE LET to_bal == checked_add(balance_of(self, to), amount) IN
        IF ~to_bal.some THEN [self |-> self, result |-> BalanceOverFlow]
        ELSE LET b1 == Insert(self.balances, from, from_bal)
                 b2 == Insert(b1, to, to_bal.val)
             IN [self |-> [self EXCEPT !.balances = b2], result |-> Ok]

\* transfer that checks the amount before it compares from and to
transfer_zero_first(self, from, to, amount) ==
    IF amount = 0 THEN [self |-> self, result |-> ZeroAmount]
    ELSE IF from = to THEN [self |-> self, result |-> SelfTransfer]
    ELSE LET from_bal == balance_of(self, from) IN
      IF from_bal < amount
      THEN [self |-> self, result |-> InsufficientBalance(amount, from_bal)]
      ELSE LET to_bal == checked_add(balance_of(self, to), amount) IN
        IF ~to_bal.some THEN [self |-> self, result |-> BalanceOverFlow]
        ELSE LET b1 == Insert(self.balances, from, from_bal - amount)
                 b2 == Insert(b1, to, to_bal.val)
             IN [self |-> [self EXCEPT !.balances = b2], result |-> Ok]

\* transfer that sets the recipient's balance to amount instead of adding it
transfer_overwrite_credit(self, from, to, amount) ==
    IF from = to THEN [self |-> self, result |-> SelfTransfer]
    ELSE IF amount = 0 THEN [self |-> self, result |-> ZeroAmount]
    ELSE LET from_bal == balance_of(self, from) IN
      IF from_bal < amount
      THEN [self |-> self, result |-> InsufficientBalance(amount, from_bal)]
      ELSE LET to_bal == checked_add(balance_of(self, to), amount) IN
        IF ~to_bal.some THEN [self |-> self, result |-> BalanceOverFlow]
        ELSE LET b1 == Insert(self.balances, from, from_bal - amount)
                 b2 == Insert(b1, to, amount)
             IN [self |-> [self EXCEPT !.balances = b2], result |-> Ok]

\* TokenState::transfer: the struct after the call and the returned Result
transfer(self, from, to, amount) ==
    IF from = to THEN [self |-> self, result |-> SelfTransfer]
    ELSE IF amount = 0 THEN [self |-> self, result |-> ZeroAmount]
    ELSE LET from_bal == balance_of(self, from) IN
      IF from_bal < amount
      THEN [self |-> self, result |-> InsufficientBalance(amount, from_bal)]
      ELSE LET to_bal == checked_add(balance_of(self, to), amount) IN
        IF ~to_bal.some THEN [self |-> self, result |-> BalanceOverFlow]
        ELSE LET b1 == Insert(self.balances, from, from_bal - amount)
                 b2 == Insert(b1, to, to_bal.val)
             IN [self |-> [self EXCEPT !.balances = b2], result |-> Ok]

\* approve that adds the amount to the current allowance
approve_accumulate(self, owner, spender, amount) ==
    IF owner = spender THEN [self |-> self, result |-> SelfApproval]
    ELSE [self |-> [self EXCEPT !.allowances =
                        Insert(self.allowances, <<owner, spender>>,
                               allowance(self, owner, spender) + amount)],
          result |-> Ok]

\* approve that refuses an amount the owner does not hold
approve_checks_balance(self, owner, spender, amount) ==
    IF owner = spender THEN [self |-> self, result |-> SelfApproval]
    ELSE IF balance_of(self, owner) < amount
    THEN [self |-> self,
          result |-> InsufficientBalance(amount, balance_of(self, owner))]
    ELSE [self |-> [self EXCEPT !.allowances =
                        Insert(self.allowances, <<owner, spender>>, amount)],
          result |-> Ok]

\* approve that records the allowance in both directions
approve_symmetric(self, owner, spender, amount) ==
    IF owner = spender THEN [self |-> self, result |-> SelfApproval]
    ELSE [self |-> [self EXCEPT !.allowances =
                        Insert(Insert(self.allowances, <<owner, spender>>, amount),
                               <<spender, owner>>, amount)],
          result |-> Ok]

\* approve that stores the allowance before it compares owner and spender
approve_writes_before_check(self, owner, spender, amount) ==
    LET written == [self EXCEPT !.allowances =
                        Insert(self.allowances, <<owner, spender>>, amount)]
    IN IF owner = spender THEN [self |-> written, result |-> SelfApproval]
       ELSE [self |-> written, result |-> Ok]

\* approve without the comparison of owner and spender
approve_allows_self(self, owner, spender, amount) ==
    [self |-> [self EXCEPT !.allowances =
                   Insert(self.allowances, <<owner, spender>>, amount)],
     result |-> Ok]

\* TokenState::approve
approve(self, owner, spender, amount) ==
    IF owner = spender THEN [self |-> self, result |-> SelfApproval]
    ELSE [self |-> [self EXCEPT !.allowances =
                        Insert(self.allowances, <<owner, spender>>, amount)],
          result |-> Ok]

\* transfer_from that writes the allowance before it checks the balance
transfer_from_early_allowance(self, spender, from, to, amount) ==
    IF from = to THEN [self |-> self, result |-> SelfTransfer]
    ELSE IF amount = 0 THEN [self |-> self, result |-> ZeroAmount]
    ELSE LET current_allowance == allowance(self, from, spender) IN
      IF current_allowance < amount
      THEN [self |-> self, result |-> InsufficientAllowance(amount, current_allowance)]
      ELSE LET from_bal == balance_of(self, from)
               a1 == Insert(self.allowances, <<from, spender>>,
                            current_allowance - amount)
               spent == [self EXCEPT !.allowances = a1]
           IN
        IF from_bal < amount
        THEN [self |-> spent, result |-> InsufficientBalance(amount, from_bal)]
        ELSE LET to_bal == checked_add(balance_of(self, to), amount) IN
          IF ~to_bal.some THEN [self |-> spent, result |-> BalanceOverFlow]
          ELSE LET b1 == Insert(self.balances, from, from_bal - amount)
                   b2 == Insert(b1, to, to_bal.val)
               IN [self |-> [self EXCEPT !.balances = b2, !.allowances = a1],
                   result |-> Ok]

\* transfer_from that checks the balance before the allowance
transfer_from_balance_first(self, spender, from, to, amount) ==
    IF from = to THEN [self |-> self, result |-> SelfTransfer]
    ELSE IF amount = 0 THEN [self |-> self, result |-> ZeroAmount]
    ELSE LET from_bal == balance_of(self, from) IN
      IF from_bal < amount
      THEN [self |-> self, result |-> InsufficientBalance(amount, from_bal)]
      ELSE LET current_allowance == allowance(self, from, spender) IN
        IF current_allowance < amount
        THEN [self |-> self,
              result |-> InsufficientAllowance(amount, current_allowance)]
        ELSE LET to_bal == checked_add(balance_of(self, to), amount) IN
          IF ~to_bal.some THEN [self |-> self, result |-> BalanceOverFlow]
          ELSE LET b1 == Insert(self.balances, from, from_bal - amount)
                   b2 == Insert(b1, to, to_bal.val)
                   a1 == Insert(self.allowances, <<from, spender>>,
                                current_allowance - amount)
               IN [self |-> [self EXCEPT !.balances = b2, !.allowances = a1],
                   result |-> Ok]

\* transfer_from that writes the remaining allowance under (spender, from)
transfer_from_reversed_key(self, spender, from, to, amount) ==
    IF from = to THEN [self |-> self, result |-> SelfTransfer]
    ELSE IF amount = 0 THEN [self |-> self, result |-> ZeroAmount]
    ELSE LET current_allowance == allowance(self, from, spender) IN
      IF current_allowance < amount
      THEN [self |-> self, result |-> InsufficientAllowance(amount, current_allowance)]
      ELSE LET from_bal == balance_of(self, from) IN
        IF from_bal < amount
        THEN [self |-> self, result |-> InsufficientBalance(amount, from_bal)]
        ELSE LET to_bal == checked_add(balance_of(self, to), amount) IN
          IF ~to_bal.some THEN [self |-> self, result |-> BalanceOverFlow]
          ELSE LET b1 == Insert(self.balances, from, from_bal - amount)
                   b2 == Insert(b1, to, to_bal.val)
                   a1 == Insert(self.allowances, <<spender, from>>,
                                current_allowance - amount)
               IN [self |-> [self EXCEPT !.balances = b2, !.allowances = a1],
                   result |-> Ok]

\* transfer_from that leaves the allowance as it was
transfer_from_no_decrement(self, spender, from, to, amount) ==
    IF from = to THEN [self |-> self, result |-> SelfTransfer]
    ELSE IF amount = 0 THEN [self |-> self, result |-> ZeroAmount]
    ELSE LET current_allowance == allowance(self, from, spender) IN
      IF current_allowance < amount
      THEN [self |-> self, result |-> InsufficientAllowance(amount, current_allowance)]
      ELSE LET from_bal == balance_of(self, from) IN
        IF from_bal < amount
        THEN [self |-> self, result |-> InsufficientBalance(amount, from_bal)]
        ELSE LET to_bal == checked_add(balance_of(self, to), amount) IN
          IF ~to_bal.some THEN [self |-> self, result |-> BalanceOverFlow]
          ELSE LET b1 == Insert(self.balances, from, from_bal - amount)
                   b2 == Insert(b1, to, to_bal.val)
               IN [self |-> [self EXCEPT !.balances = b2], result |-> Ok]

\* transfer_from that skips the balance check
transfer_from_no_balance_check(self, spender, from, to, amount) ==
    IF from = to THEN [self |-> self, result |-> SelfTransfer]
    ELSE IF amount = 0 THEN [self |-> self, result |-> ZeroAmount]
    ELSE LET current_allowance == allowance(self, from, spender) IN
      IF current_allowance < amount
      THEN [self |-> self, result |-> InsufficientAllowance(amount, current_allowance)]
      ELSE LET from_bal == balance_of(self, from)
               to_bal == checked_add(balance_of(self, to), amount) IN
          IF ~to_bal.some THEN [self |-> self, result |-> BalanceOverFlow]
          ELSE LET b1 == Insert(self.balances, from, from_bal - amount)
                   b2 == Insert(b1, to, to_bal.val)
                   a1 == Insert(self.allowances, <<from, spender>>,
                                current_allowance - amount)
               IN [self |-> [self EXCEPT !.balances = b2, !.allowances = a1],
                   result |-> Ok]

\* TokenState::transfer_from
transfer_from(self, spender, from, to, amount) ==
    IF from = to THEN [self |-> self, result |-> SelfTransfer]
    ELSE IF amount = 0 THEN [self |-> self, result |-> ZeroAmount]
    ELSE LET current_allowance == allowance(self, from, spender) IN
      IF current_allowance < amount
      THEN [self |-> self, result |-> InsufficientAllowance(amount, current_allowance)]
      ELSE LET from_bal == balance_of(self, from) IN
        IF from_bal < amount
        THEN [self |-> self, result |-> InsufficientBalance(amount, from_bal)]
        ELSE LET to_bal == checked_add(balance_of(self, to), amount) IN
          IF ~to_bal.some THEN [self |-> self, result |-> BalanceOverFlow]
          ELSE LET b1 == Insert(self.balances, from, from_bal - amount)
                   b2 == Insert(b1, to, to_bal.val)
                   a1 == Insert(self.allowances, <<from, spender>>,
                                current_allowance - amount)
               IN [self |-> [self EXCEPT !.balances = b2, !.allowances = a1],
                   result |-> Ok]

(* ------------------------------ actions -------------------------------- *)

\* the state after new(c, s)
Init ==
    \E c \in Creators, s \in InitialSupplies :
        /\ balances = new(c, s).balances
        /\ allowances = new(c, s).allowances
        /\ total_supply = new(c, s).total_supply
        /\ last = Call("new", NoAddress, c, NoAddress, s, Ok)
        /\ calls = 0
        /\ creator = c
        /\ credited = {}
        /\ approved = {}
        /\ delegated = {}
        /\ prev = new(c, s)
        /\ init_supply = s
        /\ granted = EmptyMap
        /\ spent_since = EmptyMap

\* write the struct a method returns back to the fields
Store(self) ==
    /\ balances' = self.balances
    /\ allowances' = self.allowances
    /\ total_supply' = self.total_supply

Transfer(from, to, amount) ==
    /\ calls < MaxCalls
    /\ \E r \in {transfer(Self, from, to, amount)} :
        /\ Store(r.self)
        /\ last' = Call("transfer", NoAddress, from, to, amount, r.result)
        /\ credited' = IF r.result = Ok THEN credited \cup {to} ELSE credited
    /\ calls' = calls + 1
    /\ prev' = Self
    /\ UNCHANGED <<creator, approved, delegated, init_supply, granted,
                   spent_since>>

Approve(owner, spender, amount) ==
    /\ calls < MaxCalls
    /\ \E r \in {approve(Self, owner, spender, amount)} :
        /\ Store(r.self)
        /\ last' = Call("approve", spender, owner, NoAddress, amount, r.result)
        /\ approved' = IF r.result = Ok THEN approved \cup {<<owner, spender>>}
                                        ELSE approved
        /\ granted' = IF r.result = Ok
                       THEN Insert(granted, <<owner, spender>>, amount)
                       ELSE granted
        /\ spent_since' = IF r.result = Ok
                           THEN Insert(spent_since, <<owner, spender>>, 0)
                           ELSE spent_since
    /\ calls' = calls + 1
    /\ prev' = Self
    /\ UNCHANGED <<creator, credited, delegated, init_supply>>

TransferFrom(spender, from, to, amount) ==
    /\ calls < MaxCalls
    /\ \E r \in {transfer_from(Self, spender, from, to, amount)} :
        /\ Store(r.self)
        /\ last' = Call("transfer_from", spender, from, to, amount, r.result)
        /\ credited' = IF r.result = Ok THEN credited \cup {to} ELSE credited
        /\ delegated' = IF r.result = Ok THEN delegated \cup {<<from, spender>>}
                                          ELSE delegated
        /\ spent_since' = IF r.result = Ok
                           THEN Insert(spent_since, <<from, spender>>,
                                       Get(spent_since, <<from, spender>>) + amount)
                           ELSE spent_since
    /\ calls' = calls + 1
    /\ prev' = Self
    /\ UNCHANGED <<creator, approved, init_supply, granted>>

MintForTest(address, amount) ==
    /\ calls < MaxCalls
    /\ Store(mint_for_test(Self, address, amount))
    /\ last' = Call("mint_for_test", NoAddress, NoAddress, address, amount, Ok)
    /\ calls' = calls + 1
    /\ prev' = Self
    /\ UNCHANGED <<creator, credited, approved, delegated, init_supply,
                   granted, spent_since>>

\* the public API
Next ==
    \/ /\ calls < MaxCalls
       /\ \E from \in Address, to \in Address, amount \in Amounts :
             Transfer(from, to, amount)
    \/ /\ calls < MaxCalls
       /\ \E owner \in Address, spender \in Address, amount \in Amounts :
             Approve(owner, spender, amount)
    \/ /\ calls < MaxCalls
       /\ \E spender \in Address, from \in Address, to \in Address,
             amount \in Amounts :
             TransferFrom(spender, from, to, amount)

Spec == Init /\ [][Next]_vars

\* the API of a test build, which adds mint_for_test
NextTest ==
    \/ Next
    \/ /\ calls < MaxCalls
       /\ \E address \in Address, amount \in MintAmounts :
             MintForTest(address, amount)

SpecTest == Init /\ [][NextTest]_vars

\* the state after new(c, s) with a supply at or next to the largest Balance
InitLarge ==
    \E c \in Creators, s \in LargeSupplies :
        /\ balances = new(c, s).balances
        /\ allowances = new(c, s).allowances
        /\ total_supply = new(c, s).total_supply
        /\ last = Call("new", NoAddress, c, NoAddress, s, Ok)
        /\ calls = 0
        /\ creator = c
        /\ credited = {}
        /\ approved = {}
        /\ delegated = {}
        /\ prev = new(c, s)
        /\ init_supply = s
        /\ granted = EmptyMap
        /\ spent_since = EmptyMap

\* the public API on a ledger created with a large supply
SpecLarge == InitLarge /\ [][Next]_vars

(* --------------------------- observations ------------------------------ *)

PublicOps == {"transfer", "approve", "transfer_from"}

RECURSIVE SumBalances(_, _)
\* the sum of balance_of(a) over the addresses of S
SumBalances(self, S) ==
    IF S = {} THEN 0
    ELSE LET a == CHOOSE x \in S : TRUE
         IN balance_of(self, a) + SumBalances(self, S \ {a})

\* every balance_of query answers the same on both structs
SameBalances(s1, s2) == \A a \in Address : balance_of(s1, a) = balance_of(s2, a)

\* every allowance query answers the same on both structs
SameAllowances(s1, s2) ==
    \A p \in Pairs : allowance(s1, p[1], p[2]) = allowance(s2, p[1], p[2])

(* ------------------------------- claims -------------------------------- *)

\* C1: conservation.  In every state reachable from new by transfer, approve
\* and transfer_from calls, successful or failing, the balances of all
\* addresses add up to total_supply.
C1_Conservation == SumBalances(Self, Address) = total_supply

\* C1 witness: value has moved to another address and a later call failed
C1_Witness ==
    /\ credited # {}
    /\ \E a \in Address \ {creator} : balance_of(Self, a) > 0
    /\ last.op \in PublicOps
    /\ last.result # Ok

\* C2: atomicity on failure.  A transfer, approve or transfer_from that returns
\* an error leaves every balance, every allowance and total_supply as they
\* were before the call; a transfer_from failing on the balance or on the
\* overflow check consumes no allowance.
C2_AtomicOnFailure ==
    (last.op \in PublicOps /\ last.result # Ok) =>
        /\ SameBalances(Self, prev)
        /\ SameAllowances(Self, prev)
        /\ total_supply = prev.total_supply

\* C2 witness: a transfer_from with enough allowance failed on the balance
\* check, and the allowance is still there
C2_Witness ==
    /\ last.op = "transfer_from"
    /\ last.result.tag = "InsufficientBalance"
    /\ allowance(prev, last.from, last.spender) >= last.amount
    /\ allowance(Self, last.from, last.spender) >= last.amount

\* the result the validation order of transfer prescribes
TransferOutcome(self, from, to, amount) ==
    CASE from = to -> SelfTransfer
      [] from # to /\ amount = 0 -> ZeroAmount
      [] from # to /\ amount # 0 /\ balance_of(self, from) < amount ->
            InsufficientBalance(amount, balance_of(self, from))
      [] from # to /\ amount # 0 /\ balance_of(self, from) >= amount
            /\ balance_of(self, to) + amount > MaxBalance -> BalanceOverFlow
      [] OTHER -> Ok

\* C3: transfer returns the error of the first failing check in the order
\* SelfTransfer, ZeroAmount, InsufficientBalance{required: amount, available:
\* balance_of(from)}, BalanceOverflow, and Ok exactly when no check fails.
C3_TransferValidationOrder ==
    last.op = "transfer" =>
        last.result = TransferOutcome(prev, last.from, last.to, last.amount)

\* C3 witness: the sender lacks the funds and the credit would overflow as
\* well; the balance error is the one returned
C3_Witness ==
    /\ last.op = "transfer"
    /\ last.from # last.to
    /\ balance_of(prev, last.from) < last.amount
    /\ balance_of(prev, last.to) + last.amount > MaxBalance
    /\ last.result = InsufficientBalance(last.amount, balance_of(prev, last.from))

\* the result the validation order of transfer_from prescribes
TransferFromOutcome(self, spender, from, to, amount) ==
    CASE from = to -> SelfTransfer
      [] from # to /\ amount = 0 -> ZeroAmount
      [] from # to /\ amount # 0 /\ allowance(self, from, spender) < amount ->
            InsufficientAllowance(amount, allowance(self, from, spender))
      [] from # to /\ amount # 0 /\ allowance(self, from, spender) >= amount
            /\ balance_of(self, from) < amount ->
            InsufficientBalance(amount, balance_of(self, from))
      [] from # to /\ amount # 0 /\ allowance(self, from, spender) >= amount
            /\ balance_of(self, from) >= amount
            /\ balance_of(self, to) + amount > MaxBalance -> BalanceOverFlow
      [] OTHER -> Ok

\* C4: transfer_from returns the error of the first failing check in the order
\* SelfTransfer, ZeroAmount, InsufficientAllowance, InsufficientBalance,
\* BalanceOverflow, and Ok exactly when no check fails; with both the
\* allowance and the balance below amount the error is InsufficientAllowance.
C4_TransferFromValidationOrder ==
    last.op = "transfer_from" =>
        last.result = TransferFromOutcome(prev, last.spender, last.from,
                                          last.to, last.amount)

\* C4 witness: allowance and balance are both below amount, and the allowance
\* error is returned
C4_Witness ==
    /\ last.op = "transfer_from"
    /\ last.from # last.to
    /\ last.amount > 0
    /\ allowance(prev, last.from, last.spender) < last.amount
    /\ balance_of(prev, last.from) < last.amount
    /\ last.result = InsufficientAllowance(last.amount,
                            allowance(prev, last.from, last.spender))

\* C5: a successful transfer takes exactly amount from the sender, gives
\* exactly amount to the recipient and changes no other balance, no
\* allowance and not total_supply.
C5_TransferEffect ==
    (last.op = "transfer" /\ last.result = Ok) =>
        /\ balance_of(Self, last.from) = balance_of(prev, last.from) - last.amount
        /\ balance_of(Self, last.to) = balance_of(prev, last.to) + last.amount
        /\ \A a \in Address \ {last.from, last.to} :
              balance_of(Self, a) = balance_of(prev, a)
        /\ SameAllowances(Self, prev)
        /\ total_supply = prev.total_supply

\* C5 witness: a transfer succeeded to a recipient that already held tokens,
\* while an allowance was outstanding
C5_Witness ==
    /\ last.op = "transfer"
    /\ last.result = Ok
    /\ balance_of(prev, last.to) > 0
    /\ \E p \in Pairs : allowance(prev, p[1], p[2]) > 0

\* C6: a successful transfer_from(s, o, t, x) takes exactly x from
\* allowance(o, s) and from the balance of o, gives x to the balance of t, and
\* changes no other allowance pair, no other balance and not total_supply.
C6_TransferFromEffect ==
    (last.op = "transfer_from" /\ last.result = Ok) =>
        /\ allowance(Self, last.from, last.spender)
              = allowance(prev, last.from, last.spender) - last.amount
        /\ \A p \in Pairs \ {<<last.from, last.spender>>} :
              allowance(Self, p[1], p[2]) = allowance(prev, p[1], p[2])
        /\ balance_of(Self, last.from) = balance_of(prev, last.from) - last.amount
        /\ balance_of(Self, last.to) = balance_of(prev, last.to) + last.amount
        /\ \A a \in Address \ {last.from, last.to} :
              balance_of(Self, a) = balance_of(prev, a)
        /\ total_supply = prev.total_supply

\* C6 witness: a delegated transfer among three distinct addresses succeeded
\* while the owner had also granted an allowance to the recipient
C6_Witness ==
    /\ last.op = "transfer_from"
    /\ last.result = Ok
    /\ last.spender # last.to
    /\ allowance(prev, last.from, last.to) > 0
    /\ allowance(Self, last.from, last.to) > 0

\* C7: approve overwrites.  After a successful approve(o, s, y) the allowance
\* of (o, s) is y, whatever it was before the call.
C7_ApproveOverwrites ==
    (last.op = "approve" /\ last.result = Ok) =>
        allowance(Self, last.from, last.spender) = last.amount

\* C7 witness: the pair held a nonzero allowance left by spending through
\* transfer_from, and a different, nonzero amount was approved over it
C7_Witness ==
    /\ last.op = "approve"
    /\ last.result = Ok
    /\ <<last.from, last.spender>> \in delegated
    /\ allowance(prev, last.from, last.spender) > 0
    /\ last.amount > 0
    /\ allowance(prev, last.from, last.spender) # last.amount
    /\ allowance(Self, last.from, last.spender) = last.amount

\* C8: approve fails with SelfApproval exactly when owner = spender and
\* returns Ok otherwise, whatever the amount and the state.
C8_ApproveResult ==
    last.op = "approve" =>
        /\ (last.from = last.spender) => last.result = SelfApproval
        /\ (last.from # last.spender) => last.result = Ok

\* C8 witness: an approve of more than the owner's balance and more than the
\* total supply returned Ok
C8_Witness ==
    /\ last.op = "approve"
    /\ last.result = Ok
    /\ last.amount > balance_of(prev, last.from)
    /\ last.amount > total_supply

\* C9: a successful approve(o, s, amount) changes the allowance of (o, s) only:
\* the reverse pair, every other pair, every balance and total_supply keep
\* their values.
C9_ApproveFrame ==
    (last.op = "approve" /\ last.result = Ok) =>
        /\ \A p \in Pairs \ {<<last.from, last.spender>>} :
              allowance(Self, p[1], p[2]) = allowance(prev, p[1], p[2])
        /\ SameBalances(Self, prev)
        /\ total_supply = prev.total_supply

\* C9 witness: the reverse pair holds a nonzero allowance that differs from
\* the amount just approved
C9_Witness ==
    /\ last.op = "approve"
    /\ last.result = Ok
    /\ allowance(Self, last.spender, last.from) > 0
    /\ allowance(Self, last.spender, last.from) # last.amount
    /\ allowance(Self, last.from, last.spender) = last.amount

\* C10: right after new(creator, initial_supply) the creator holds
\* initial_supply, every other balance and every allowance is 0; later,
\* balance_of is 0 for every address that is neither the creator nor a
\* recipient of a successful transfer / transfer_from, and allowance is 0 for
\* every pair without a successful approve.
C10_InitialAndZeroDefault ==
    /\ (last.op = "new") =>
          /\ balance_of(Self, last.from) = last.amount
          /\ \A a \in Address \ {last.from} : balance_of(Self, a) = 0
          /\ \A p \in Pairs : allowance(Self, p[1], p[2]) = 0
    /\ \A a \in Address \ (credited \cup {creator}) : balance_of(Self, a) = 0
    /\ \A p \in Pairs \ approved : allowance(Self, p[1], p[2]) = 0

\* C10 witness: some address was credited and some pair approved, both hold
\* value, and another address and another pair were never written
C10_Witness ==
    /\ \E a \in credited : balance_of(Self, a) > 0
    /\ \E p \in approved : allowance(Self, p[1], p[2]) > 0
    /\ Address \ (credited \cup {creator}) # {}
    /\ Pairs \ approved # {}

\* C11: total_supply is fixed at construction.  In every reachable state it
\* equals the initial_supply passed to new, and no transfer, approve or
\* transfer_from call, successful or failing, changes it.
C11_TotalSupplyFixed ==
    /\ total_supply = init_supply
    /\ total_supply = prev.total_supply

\* C11 witness: tokens of a nonzero supply were moved by a transfer and by a
\* delegated transfer
C11_Witness ==
    /\ init_supply > 0
    /\ last.op = "transfer_from"
    /\ last.result = Ok
    /\ balance_of(Self, creator) < init_supply
    /\ calls > 2

\* C12 as stated (Scenario F): once an address holds exactly the largest
\* Balance, every transfer(x, that_address, amount) with amount > 0 returns
\* BalanceOverflow.
C12_Original ==
    (/\ last.op = "transfer"
     /\ last.amount > 0
     /\ balance_of(prev, last.to) = MaxBalance) =>
        last.result = BalanceOverFlow

\* C12 amended: once an address holds exactly the largest Balance, a
\* transfer(x, that_address, amount) with amount > 0 from another address x
\* that holds at least amount returns BalanceOverflow.
C12_OverflowAtMax ==
    (/\ last.op = "transfer"
     /\ last.amount > 0
     /\ balance_of(prev, last.to) = MaxBalance
     /\ last.from # last.to
     /\ balance_of(prev, last.from) >= last.amount) =>
        last.result = BalanceOverFlow

\* C12 witness: a funded sender transferred to an address holding the largest
\* Balance and got the overflow error
C12_Witness ==
    /\ last.op = "transfer"
    /\ last.amount > 0
    /\ last.from # last.to
    /\ balance_of(prev, last.to) = MaxBalance
    /\ balance_of(prev, last.from) >= last.amount
    /\ last.result = BalanceOverFlow

\* the struct without the entries that hold 0
Strip(self) ==
    [balances |-> [a \in {x \in DOMAIN self.balances : self.balances[x] # 0}
                      |-> self.balances[a]],
     allowances |-> [p \in {x \in DOMAIN self.allowances : self.allowances[x] # 0}
                      |-> self.allowances[p]],
     total_supply |-> self.total_supply]

\* the struct with an entry holding 0 for every missing key
Fill(self) ==
    [balances |-> [a \in Address |-> balance_of(self, a)],
     allowances |-> [p \in Pairs |-> allowance(self, p[1], p[2])],
     total_supply |-> self.total_supply]

\* the answers of all queries on a struct
View(self) ==
    [balance_of |-> [a \in Address |-> balance_of(self, a)],
     allowance |-> [p \in Pairs |-> allowance(self, p[1], p[2])],
     total_supply |-> self.total_supply]

\* the recorded call c made on a struct
Dispatch(self, c) ==
    CASE c.op = "transfer" -> transfer(self, c.from, c.to, c.amount)
      [] c.op = "approve" -> approve(self, c.from, c.spender, c.amount)
      [] c.op = "transfer_from" ->
            transfer_from(self, c.spender, c.from, c.to, c.amount)

\* C13: absent and zero are indistinguishable.  A ledger and the ledgers that
\* differ from it only in whether entries holding 0 are present answer every
\* query alike, return the same result for every transfer, approve and
\* transfer_from call, and answer every query alike after the call.
C13_AbsentIsZero ==
    last.op \in PublicOps =>
        \A before \in {View(prev)}, after \in {View(Self)} :
            \A v \in {Strip(prev), Fill(prev)} :
                /\ View(v) = before
                /\ \A d \in {Dispatch(v, last)} :
                      /\ d.result = last.result
                      /\ View(d.self) = after

\* C13 witness: a transfer_from was made on a ledger holding a fully spent
\* allowance entry and a drained balance entry, both present with value 0
C13_Witness ==
    /\ last.op = "transfer_from"
    /\ <<last.from, last.spender>> \in delegated
    /\ <<last.from, last.spender>> \in DOMAIN prev.allowances
    /\ prev.allowances[<<last.from, last.spender>>] = 0
    /\ last.from \in DOMAIN prev.balances
    /\ prev.balances[last.from] = 0
    /\ init_supply > 0
    /\ Strip(prev) # prev
    /\ Fill(prev) # prev

\* C14: allowance accounting over histories.  In every reachable state the
\* allowance of (o, s) is the amount of the most recent successful
\* approve(o, s, .) minus the sum of the amounts of the successful
\* transfer_from(s, o, ., .) calls made since, and 0 if no approve(o, s, .)
\* ever succeeded; the sum moved since an approve never exceeds the approved
\* amount, and no transfer_from(s, o, ., .) succeeds before an approve(o, s, x)
\* with x > 0.
C14_AllowanceAccounting ==
    /\ \A p \in Pairs :
          /\ allowance(Self, p[1], p[2]) = Get(granted, p) - Get(spent_since, p)
          /\ Get(spent_since, p) <= Get(granted, p)
          /\ p \notin approved => allowance(Self, p[1], p[2]) = 0
    /\ delegated \subseteq approved
    /\ (last.op = "transfer_from" /\ last.result = Ok) =>
          /\ <<last.from, last.spender>> \in approved
          /\ Get(granted, <<last.from, last.spender>>) > 0

\* C14 witness: an approved amount was used up by two delegated transfers
C14_Witness ==
    /\ last.op = "transfer_from"
    /\ last.result = Ok
    /\ Get(granted, <<last.from, last.spender>>) > last.amount
    /\ Get(spent_since, <<last.from, last.spender>>)
          = Get(granted, <<last.from, last.spender>>)
    /\ allowance(Self, last.from, last.spender) = 0

\* C15: no underflow.  The subtractions from_bal - amount and
\* current_allowance - amount are made only with a minuend of at least
\* amount, so every balance and every allowance stays within 0 and the
\* largest Balance.
C15_NoUnderflow ==
    /\ \A a \in DOMAIN balances : balances[a] >= 0 /\ balances[a] <= MaxBalance
    /\ \A p \in DOMAIN allowances :
          allowances[p] >= 0 /\ allowances[p] <= MaxBalance
    /\ (last.op \in {"transfer", "transfer_from"} /\ last.result = Ok) =>
          balance_of(prev, last.from) >= last.amount
    /\ (last.op = "transfer_from" /\ last.result = Ok) =>
          allowance(prev, last.from, last.spender) >= last.amount

\* C15 witness: a delegated transfer took the whole balance and the whole
\* allowance, leaving both at 0
C15_Witness ==
    /\ last.op = "transfer_from"
    /\ last.result = Ok
    /\ balance_of(prev, last.from) = last.amount
    /\ allowance(prev, last.from, last.spender) = last.amount
    /\ balance_of(Self, last.from) = 0
    /\ allowance(Self, last.from, last.spender) = 0

\* C16: the ledger remains usable after failures.  The call that follows a
\* failing transfer, approve or transfer_from returns the result and produces
\* the struct it would have on the ledger as it was before the failing call.
C16_UsableAfterFailure ==
    [][(last.op \in PublicOps /\ last.result # Ok /\ last'.op \in PublicOps) =>
          /\ last'.result = Dispatch(prev, last').result
          /\ Self' = Dispatch(prev, last').self]_vars

\* C16 witness: the first call on the ledger failed and the second one, a
\* transfer, succeeded
C16_Witness ==
    /\ calls = 2
    /\ last.op = "transfer"
    /\ last.result = Ok
    /\ prev = new(creator, init_supply)
    /\ approved = {}
    /\ delegated = {}
    /\ credited = {last.to}

\* C17: through the public methods every balance stays at or below
\* total_supply, which is at most the largest Balance, so that no transfer or
\* transfer_from call returns BalanceOverflow.
C17_NoOverflowInPublicApi ==
    /\ \A a \in Address : balance_of(Self, a) <= total_supply
    /\ total_supply <= MaxBalance
    /\ last.result # BalanceOverFlow

\* C17 witness: a transfer succeeded that brought the recipient to exactly
\* the largest Balance
C17_Witness ==
    /\ last.op \in {"transfer", "transfer_from"}
    /\ last.result = Ok
    /\ balance_of(prev, last.to) + last.amount = MaxBalance
    /\ balance_of(Self, last.to) = MaxBalance

\* C18: allowance(a, a) is 0 for every address a in every reachable state, so
\* a transfer_from with spender = from, from # to and amount > 0 fails with
\* InsufficientAllowance{required: amount, available: 0}.
C18_NoSelfAllowance ==
    /\ \A a \in Address : allowance(Self, a, a) = 0
    /\ (/\ last.op = "transfer_from"
        /\ last.spender = last.from
        /\ last.from # last.to
        /\ last.amount > 0) =>
          last.result = InsufficientAllowance(last.amount, 0)

\* C18 witness: an owner holding enough tokens tried to move them through
\* transfer_from as its own spender
C18_Witness ==
    /\ last.op = "transfer_from"
    /\ last.spender = last.from
    /\ last.from # last.to
    /\ last.amount > 0
    /\ balance_of(prev, last.from) >= last.amount
    /\ last.result = InsufficientAllowance(last.amount, 0)

\* C19: an address is a key of balances only if it is the creator or was the
\* recipient of a successful transfer / transfer_from; the debit insert never
\* creates a key, keys are never removed, and the key (from, spender) that
\* transfer_from writes already existed in allowances.
C19_BalanceKeys ==
    /\ DOMAIN balances \subseteq credited \cup {creator}
    /\ DOMAIN prev.balances \subseteq DOMAIN balances
    /\ DOMAIN prev.allowances \subseteq DOMAIN allowances
    /\ (last.op \in {"transfer", "transfer_from"} /\ last.result = Ok) =>
          last.from \in DOMAIN prev.balances
    /\ (last.op = "transfer_from" /\ last.result = Ok) =>
          <<last.from, last.spender>> \in DOMAIN prev.allowances

\* C19 witness: a delegated transfer drained the sender, whose key stays with
\* value 0, while another address has no key
C19_Witness ==
    /\ last.op = "transfer_from"
    /\ last.result = Ok
    /\ last.from \in DOMAIN balances
    /\ balances[last.from] = 0
    /\ <<last.from, last.spender>> \in DOMAIN allowances
    /\ Address \ DOMAIN balances # {}

====
